---- MODULE Spec2Model ----
(***************************************************************************)
(* A model of nocopy, a client of the NocoDB REST API: the generic Client  *)
(* of src/nocopy/client.py (request building, payload encoding, the error  *)
(* translating wrapper around every HTTP call, build_url) and the          *)
(* connection handling of the command line tool in src/nocopy/cli.py.      *)
(*                                                                         *)
(* The program is sequential.  One action is one call of an operation: it  *)
(* draws the arguments of the call and the replies of the server, runs     *)
(* the whole operation and records the requests it issued (sent), the      *)
(* replies it consumed (replies) and how it ended (outcome).  Return       *)
(* brings the caller back to the point where the next call can start.      *)
(*                                                                         *)
(* Strings that are taken apart by the code (URLs, path segments) are      *)
(* sequences of tokens: the token "/" is one slash, every other token is   *)
(* a non-empty piece of text without a slash.  Python values that may be   *)
(* None are tagged records, see None, Num, Str and List; the text of a Str *)
(* is a sequence of tokens too.                                            *)
(***************************************************************************)
EXTENDS Integers, Sequences, FiniteSets

\* ------------------------------------------------------------------ bounds
\* Largest row count the server reports.
MaxCount == 2
\* Largest record id passed to by_id, exists, update and delete.
MaxId == 2
\* Most segments in one call of build_url made on its own.
MaxSegs == 2
\* Most tokens in one such segment.
MaxSegLen == 3
\* Most records in one list payload.
MaxItems == 2

\* ----------------------------------------------------------- Python values
None == [t |-> "none"]
Num(n) == [t |-> "int", int |-> n]
Str(s) == [t |-> "str", str |-> s]
List(q) == [t |-> "list", elems |-> q]
Dict(f) == [t |-> "dict", map |-> f]
IsNone(x) == x.t = "none"

\* The empty dict.
EmptyDict == [k \in {} |-> None]

\* str(id) for the ids of the model: one token holding the digit.
Digits == <<"0", "1", "2", "3", "4", "5", "6", "7", "8", "9">>
str(n) == <<Digits[n + 1]>>

\* The element of a one-element set.  A value that an operator uses more
\* than once is given its name by The({e(v) : v \in {value}}), so that it is
\* worked out once.
The(S) == CHOOSE v \in S : TRUE

\* The dict d after d[key] = value.
Put(d, key, value) ==
    The({[k \in DOMAIN m \cup {key} |-> IF k = key THEN value ELSE m[k]] :
            m \in {d}})

\* All sequences over S of length 0..n.
SeqsUpTo(S, n) == UNION {[1..k -> S] : k \in 0..n}

\* ---------------------------------------------------------------- build_url
\* sep.join(rsl)
RECURSIVE join(_, _)
join(sep, rsl) ==
    IF rsl = <<>> THEN <<>>
    ELSE IF Len(rsl) = 1 THEN rsl[1]
    ELSE rsl[1] \o <<sep>> \o join(sep, Tail(rsl))

\* One round of the loop of build_url on `part`: what is appended to rsl
\* (a sequence of zero or one parts), or the IndexError of part[-1] on a
\* part that the removal of its leading slash left empty.
strip_part(part) ==
    IF Len(part) = 0 THEN [err |-> "none", add |-> <<>>]
    ELSE LET p1 == IF part[1] = "/" THEN Tail(part) ELSE part
         IN  IF Len(p1) = 0 THEN [err |-> "IndexError", add |-> <<>>]
             ELSE LET p2 == IF p1[Len(p1)] = "/"
                            THEN SubSeq(p1, 1, Len(p1) - 1) ELSE p1
                  IN  [err |-> "none",
                       add |-> IF Len(p2) # 0 THEN <<p2>> ELSE <<>>]

\* The loop of build_url over args, left to right, from the parts rsl
\* collected so far.
RECURSIVE collect_parts(_, _)
collect_parts(args, rsl) ==
    IF args = <<>> THEN [err |-> "none", rsl |-> rsl]
    ELSE LET r == strip_part(Head(args))
         IN  IF r.err # "none" THEN [err |-> r.err, rsl |-> rsl]
             ELSE collect_parts(Tail(args), rsl \o r.add)

\* build_url(*args): the URL, or the error the call raises.
build_url(args) ==
    The({IF c.err # "none" THEN [err |-> c.err, url |-> <<>>]
         ELSE [err |-> "none", url |-> join("/", c.rsl)] :
            c \in {collect_parts(args, <<>>)}})

\* ------------------------------------------------------- outcomes of a call
Returned(v) == [kind |-> "return", value |-> v]
Raise(e) == [kind |-> "raise", exc |-> e]

\* What an operation hands back to the action that runs it: the calls of
\* requests.get/post/put/delete it made, the responses it got, its outcome.
Result(s, r, o) == [sent |-> s, replies |-> r, out |-> o]

\* --------------------------------------------------- JSON values and bodies
\* A decoded JSON value; Text is a body that is not JSON.
JObject(f) == [kind |-> "object", obj |-> f]
JArray(q) == [kind |-> "array", array |-> q]
JNumber(n) == [kind |-> "number", num |-> n]
Text(s) == [kind |-> "text", text |-> s]

\* The fields of the schema bound to a typed client: the reserved id and
\* one more field.
SchemaFields == {"id", "name"}
Rows == {[id |-> i, name |-> "a"] : i \in 1..MaxId}

MsgBody == JObject([msg |-> "Table not found"])
NoMsgBody == JObject([name |-> "a"])
Bodies ==
    {MsgBody, NoMsgBody, Text("oops"), JNumber(7), JArray(<<>>)}
    \cup {JObject([count |-> n]) : n \in 0..MaxCount}
    \cup {JObject(r) : r \in Rows}
    \cup {JArray(<<JObject(r)>>) : r \in Rows}

\* response.reason: a str, or bytes that decode as UTF-8 or do not.
StrReason == [type |-> "str", text |-> "Not Found"]
Reasons ==
    {StrReason,
     [type |-> "bytes", utf8_ok |-> TRUE, utf8 |-> "Not Found",
      latin1 |-> "Not Found"],
     [type |-> "bytes", utf8_ok |-> FALSE, utf8 |-> "",
      latin1 |-> "Introuvable"]}

Statuses == {200, 399, 400, 404, 499, 500, 599, 600}

\* The replies the server may give to a request: every body with a success
\* and with an error status, every status, every kind of reason phrase.
Reply(s, r, b) == [status_code |-> s, reason |-> r, body |-> b]
Replies ==
    {Reply(s, StrReason, b) : s \in {200, 404}, b \in Bodies}
    \cup {Reply(s, StrReason, MsgBody) : s \in Statuses}
    \cup {Reply(s, r, MsgBody) : s \in {404, 500}, r \in Reasons}
    \cup {Reply(500, StrReason, b) : b \in {NoMsgBody, Text("oops")}}

\* The replies to draw from for a request that is made only if `made`.
NoReply == Reply(200, StrReason, MsgBody)
RepliesIf(made) == IF made THEN Replies ELSE {NoReply}

\* ------------------------------------------------- exception_on_error_code
\* The wrapper around every __get, __post, __put and __delete, applied to
\* the response the wrapped function returned.
exception_on_error_code(response) ==
    LET code == response.status_code
        kind == IF 400 <= code /\ code < 500 THEN "Client Error"
                ELSE IF 500 <= code /\ code < 600 THEN "Server Error"
                ELSE "none"
        reason == IF response.reason.type = "bytes"
                  THEN IF response.reason.utf8_ok
                       THEN response.reason.utf8
                       ELSE response.reason.latin1
                  ELSE response.reason.text
        j == response.body
        HTTPError(message) ==
            [kind |-> "raise", exc |-> "HTTPError",
             msg |-> [status_code |-> code, kind |-> kind, reason |-> reason,
                      url |-> response.url, message |-> message],
             response |-> response]
    IN  IF kind = "none" THEN Returned(response)
        ELSE CASE j.kind = "text" ->
                    \* json.decoder.JSONDecodeError is caught
                    HTTPError([sep |-> ":\n", text |-> j.text])
               [] j.kind = "object" /\ "msg" \in DOMAIN j.obj ->
                    HTTPError([sep |-> ", ", text |-> j.obj.msg])
               [] j.kind = "object" /\ "msg" \notin DOMAIN j.obj ->
                    \* message was never assigned
                    Raise("UnboundLocalError")
               [] j.kind = "array" ->
                    \* "msg" in a list of objects is False
                    Raise("UnboundLocalError")
               [] OTHER ->
                    \* "msg" in <a number>
                    Raise("TypeError")

\* ------------------------------------------------------------ the requests
\* requests refuses a URL without a scheme (MissingSchema) before anything
\* is sent.
HasScheme(url) == Len(url) > 0 /\ url[1] = "http:"

\* A call that issues the request once more when the response is an error.
request_retries(call, url, reply) ==
    The({LET req == [call EXCEPT !.url = u.url]
             response == [status_code |-> reply.status_code,
                          reason |-> reply.reason, body |-> reply.body,
                          url |-> u.url]
         IN  IF u.err # "none" THEN Result(<<>>, <<>>, Raise(u.err))
             ELSE IF ~HasScheme(u.url)
             THEN Result(<<req>>, <<>>, Raise("MissingSchema"))
             ELSE IF 400 <= reply.status_code /\ reply.status_code < 600
             THEN Result(<<req, req>>, <<response, response>>,
                         exception_on_error_code(response))
             ELSE Result(<<req>>, <<response>>,
                         exception_on_error_code(response)) :
            u \in {build_url(url)}})

\* One call of requests.<verb>(build_url(*url), headers, ...) under the
\* wrapper: `call` holds the arguments but the URL, `reply` is what the
\* server answers if the request goes out.
request(call, url, reply) ==
    The({LET req == [call EXCEPT !.url = u.url]
             response == [status_code |-> reply.status_code,
                          reason |-> reply.reason, body |-> reply.body,
                          url |-> u.url]
         IN  IF u.err # "none" THEN Result(<<>>, <<>>, Raise(u.err))
             ELSE IF ~HasScheme(u.url)
             THEN Result(<<req>>, <<>>, Raise("MissingSchema"))
             ELSE Result(<<req>>, <<response>>,
                         exception_on_error_code(response)) :
            u \in {build_url(url)}})

ApplicationJson == <<"application", "/", "json">>

\* A GET that carries a token other than the client's.
get_with_other_token(self, params, url, reply) ==
    request([verb |-> "GET", url |-> <<>>,
             headers |-> Put(EmptyDict, "xc-auth", <<"other">>),
             params |-> params, data |-> None],
            url, reply)

\* Client.__get(params, *url)
get(self, params, url, reply) ==
    request([verb |-> "GET", url |-> <<>>,
             headers |-> Put(EmptyDict, "xc-auth", self.auth_token),
             params |-> params, data |-> None],
            url, reply)

\* Client.__delete(*url)
delete_(self, url, reply) ==
    request([verb |-> "DELETE", url |-> <<>>,
             headers |-> Put(Put(EmptyDict, "xc-auth", self.auth_token),
                             "accept", ApplicationJson),
             params |-> None, data |-> None],
            url, reply)

\* Client.__cond_add_param(params, value, key), params a mapping
cond_add_param(params, value, key) ==
    IF IsNone(value) THEN params
    ELSE Put(params, key, IF value.t = "list"
                          THEN Str(join(",", value.elems))
                          ELSE value)

\* ----------------------------------------------------- Record Model Binder
\* T.parse_obj(obj): an instance of the schema, or the ValidationError of
\* an object that lacks a field of the schema or is no object at all.
parse_obj(obj) ==
    IF obj.kind = "object" /\ SchemaFields \subseteq DOMAIN obj.obj
    THEN Returned([kind |-> "model",
                   row |-> [f \in SchemaFields |-> obj.obj[f]]])
    ELSE Raise("ValidationError")

\* Client.__build_return(response, as_dict)
build_return(self, response, as_dict) ==
    LET j == response.body
        parsed == [i \in DOMAIN j.array |-> parse_obj(j.array[i])]
    IN  IF j.kind = "text" THEN Raise("JSONDecodeError")
        ELSE IF ~self.typed THEN Returned(j)
        ELSE CASE j.kind = "array" ->
                    IF \E i \in DOMAIN parsed : parsed[i].kind = "raise"
                    THEN Raise("ValidationError")
                    ELSE Returned(JArray(
                            [i \in DOMAIN parsed |->
                                IF as_dict
                                THEN [kind |-> "dict",
                                      row |-> parsed[i].value.row]
                                ELSE parsed[i].value]))
               [] j.kind = "object" ->
                    \* the loop runs over the keys of the mapping, and
                    \* parse_obj refuses a key
                    IF DOMAIN j.obj = {} THEN Returned(JArray(<<>>))
                    ELSE Raise("ValidationError")
               [] OTHER ->
                    \* a number is not iterable
                    Raise("TypeError")

\* A count that sends a filter whether the caller gave one or not.
count_sends_filter(self, where, reply) ==
    The({LET j == g.out.value.body
         IN  IF g.out.kind = "raise" THEN g
             ELSE Result(g.sent, g.replies,
                    CASE j.kind = "text" -> Raise("JSONDecodeError")
                      [] j.kind = "object" /\ "count" \in DOMAIN j.obj ->
                            Returned(Num(j.obj.count))
                      [] j.kind = "object" /\ "count" \notin DOMAIN j.obj ->
                            Raise("KeyError")
                      [] OTHER -> Raise("TypeError")) :
            g \in {get(self, Dict(Put(EmptyDict, "where", Str(<<"x">>))),
                       <<self.base_url, <<"count">>>>, reply)}})

\* ------------------------------------------------------------ Client.count
count(self, where, reply) ==
    LET params == IF ~IsNone(where) THEN Put(EmptyDict, "where", where)
                  ELSE EmptyDict
    IN  The({LET j == g.out.value.body
             IN  IF g.out.kind = "raise" THEN g
                 ELSE Result(g.sent, g.replies,
                        CASE j.kind = "text" -> Raise("JSONDecodeError")
                          [] j.kind = "object" /\ "count" \in DOMAIN j.obj ->
                                Returned(Num(j.obj.count))
                          [] j.kind = "object" /\ "count" \notin DOMAIN j.obj ->
                                Raise("KeyError")
                          [] OTHER -> Raise("TypeError")) :
                g \in {get(self, Dict(params),
                           <<self.base_url, <<"count">>>>, reply)}})

\* ------------------------------------------------------------- Client.list
\* A resolution of the limit that counts the rows whether a limit is given
\* or not.
resolve_limit_always_counts(self, limit, count_reply) ==
    count(self, None, count_reply)

\* The `if limit is None: limit = self.count()` that list, group_by and
\* aggregate start with.
resolve_limit(self, limit, count_reply) ==
    IF IsNone(limit) THEN count(self, None, count_reply)
    ELSE Result(<<>>, <<>>, Returned(limit))

\* A call that starts with the resolution `c` of its limit: `c` alone if
\* that raised, else `c` followed by `rest`, the rest of the call.
then(c, rest) ==
    IF c.out.kind = "raise" THEN c
    ELSE The({Result(c.sent \o r.sent, c.replies \o r.replies, r.out) :
                r \in {rest}})

\* Client.list from line 145 on, `limit` resolved.
list_rows(self, where, limit, offset, sort, fields, fields1, as_dict, reply) ==
    LET p0 == [offset |-> offset, limit |-> limit]
        p1 == cond_add_param(p0, where, "where")
        p2 == cond_add_param(p1, sort, "sort")
        p3 == cond_add_param(p2, fields, "fields")
        p4 == cond_add_param(p3, fields1, "fields1")
    IN  The({IF g.out.kind = "raise" THEN g
             ELSE Result(g.sent, g.replies,
                         build_return(self, g.out.value, as_dict)) :
                g \in {get(self, Dict(p4), <<self.base_url>>, reply)}})

list(self, where, limit, offset, sort, fields, fields1, as_dict, count_reply, reply) ==
    The({then(c, list_rows(self, where, c.out.value, offset, sort, fields,
                           fields1, as_dict, reply)) :
            c \in {resolve_limit(self, limit, count_reply)}})

\* rsp.json() as the value an operation returns.
json_of(rsp) ==
    The({IF g.out.kind = "raise" THEN g
         ELSE Result(g.sent, g.replies,
                     IF g.out.value.body.kind = "text"
                     THEN Raise("JSONDecodeError")
                     ELSE Returned(g.out.value.body)) :
            g \in {rsp}})

\* ------------------------------------------------------- Client.find_first
find_first(self, where, offset, sort, fields, as_dict, reply) ==
    LET p0 == [offset |-> offset]
        p1 == cond_add_param(p0, where, "where")
        p2 == cond_add_param(p1, sort, "sort")
        p3 == cond_add_param(p2, fields, "fields")
    IN  The({IF g.out.kind = "raise" THEN g
             ELSE Result(g.sent, g.replies,
                         The({IF b.kind = "raise" THEN b
                              ELSE Returned(JArray(<<b.value>>)) :
                                b \in {build_return(self, g.out.value,
                                                    as_dict)}})) :
                g \in {get(self, Dict(p3),
                           <<self.base_url, <<"findOne">>>>, reply)}})

\* --------------------------------------------------------- Client.group_by
\* Client.group_by from line 255 on, `limit` resolved.
group_by_rows(self, column_name, where, limit, offset, sort, reply) ==
    LET p0 == [limit |-> limit, offset |-> offset]
        p1 == cond_add_param(p0, column_name, "column_name")
        p2 == cond_add_param(p1, where, "where")
        p3 == cond_add_param(p2, sort, "sort")
    IN  json_of(get(self, Dict(p3), <<self.base_url, <<"groupby">>>>, reply))

group_by(self, column_name, where, limit, offset, sort, count_reply, reply) ==
    The({then(c, group_by_rows(self, column_name, where, c.out.value, offset,
                               sort, reply)) :
            c \in {resolve_limit(self, limit, count_reply)}})

\* -------------------------------------------------------- Client.aggregate
\* Client.aggregate from line 299 on, `limit` resolved.
aggregate_rows(self, column_name, func, having, fields, limit, offset, sort, reply) ==
    LET p0 == [limit |-> limit, offset |-> offset]
        p1 == cond_add_param(p0, column_name, "column_name")
        p2 == cond_add_param(p1, func, "func")
        p3 == cond_add_param(p2, having, "having")
        p4 == cond_add_param(p3, fields, "fields")
        p5 == cond_add_param(p4, sort, "sort")
    IN  json_of(get(self, Dict(p5), <<self.base_url, <<>>>>, reply))

aggregate(self, column_name, func, having, fields, limit, offset, sort, count_reply, reply) ==
    The({then(c, aggregate_rows(self, column_name, func, having, fields,
                                c.out.value, offset, sort, reply)) :
            c \in {resolve_limit(self, limit, count_reply)}})

\* ------------------------------------------------------------ Client.by_id
\* The call is self.__get(self.base_url, str(id)): the base URL takes the
\* place of params, and str(id) alone is the URL.
by_id(self, id, reply) ==
    The({LET j == g.out.value.body
         IN  IF g.out.kind = "raise" THEN g
             ELSE Result(g.sent, g.replies,
                    CASE j.kind = "text" -> Raise("JSONDecodeError")
                      [] j.kind = "number" -> Raise("TypeError")
                      [] j.kind = "array" -> Raise("KeyError")
                      [] j.kind = "object" /\ "id" \notin DOMAIN j.obj ->
                            Raise("KeyError")
                      [] OTHER ->
                            IF ~self.typed THEN Returned(j)
                            ELSE parse_obj(j)) :
            g \in {get(self, Str(self.base_url), <<str(id)>>, reply)}})

\* ----------------------------------------------------------- Client.exists
exists(self, id, reply) ==
    json_of(get(self, Dict(EmptyDict),
                <<self.base_url, str(id), <<"exists">>>>, reply))

\* An operation that returns nothing.
returns_none(rsp) ==
    The({IF r.out.kind = "raise" THEN r
         ELSE Result(r.sent, r.replies, Returned(None)) :
            r \in {rsp}})

\* ----------------------------------------------------------- Client.delete
delete(self, id, reply) ==
    returns_none(delete_(self, <<self.base_url, str(id)>>, reply))

\* ---------------------------------------------------------- Payload Encoder
\* A JSON text: of a mapping, its keys in the order they are written and
\* the value written for each; of a list, the texts of its items.
FieldOrder == <<"id", "name">>

\* The keys of `order` that mapping f has, in that order.
RECURSIVE keys_in_order(_, _)
keys_in_order(f, order) ==
    IF order = <<>> THEN <<>>
    ELSE (IF Head(order) \in DOMAIN f THEN <<Head(order)>> ELSE <<>>)
         \o keys_in_order(f, Tail(order))

\* json.dumps(mapping)
dumps(f) ==
    LET ks == keys_in_order(f, FieldOrder)
    IN  [json |-> "object", keys |-> ks,
         written |-> [k \in {ks[i] : i \in DOMAIN ks} |-> f[k]]]
\* json.dumps(list of mappings)
dumps_list(q) == [json |-> "array", texts |-> [i \in DOMAIN q |-> dumps(q[i])]]

\* A mapping without the keys `exclude`.
without(f, exclude) == [k \in DOMAIN f \ exclude |-> f[k]]

\* One round of the loop over a list payload: a mapping is kept as it is,
\* of a model instance item.dict(exclude={"id"}) is kept.
bulk_item(item) ==
    IF item.kind = "dict" THEN item.row
    ELSE without(item.row, {"id"})

\* An encoder that writes a single record with all its fields and treats a
\* list as the code does.
build_payload_keeps_id(self, payload, url, exclude_id) ==
    IF payload.kind \in {"model", "dict"}
    THEN [err |-> "none", url |-> url, payload |-> dumps(payload.row)]
    ELSE [err |-> "none", url |-> Append(url, <<"bulk">>),
          payload |-> dumps_list(
                        [i \in DOMAIN payload.rows |->
                            bulk_item(payload.rows[i])])]

\* Client.__build_payload(payload, *url, exclude_id): the body and the URL
\* parts, or the error raised.
build_payload(self, payload, url, exclude_id) ==
    IF self.typed /\ payload.kind = "model" /\ exclude_id
    THEN [err |-> "none", url |-> url,
          payload |-> dumps(without(payload.row, {"id"}))]
    ELSE IF payload.kind = "dict"
    THEN [err |-> "none", url |-> url, payload |-> dumps(payload.row)]
    ELSE IF payload.kind = "model"
    THEN \* the loop runs over the (name, value) pairs of the instance,
         \* and a pair has no dict()
         [err |-> "AttributeError", url |-> Append(url, <<"bulk">>),
          payload |-> None]
    ELSE [err |-> "none", url |-> Append(url, <<"bulk">>),
          payload |-> dumps_list(
                        [i \in DOMAIN payload.rows |->
                            bulk_item(payload.rows[i])])]

WriteHeaders(self) ==
    Put(Put(Put(EmptyDict, "xc-auth", self.auth_token),
            "accept", ApplicationJson),
        "Content-Type", ApplicationJson)

\* Client.__post(payload, *url)
post(self, payload, url, reply) ==
    The({IF b.err # "none" THEN Result(<<>>, <<>>, Raise(b.err))
         ELSE request([verb |-> "POST", url |-> <<>>,
                       headers |-> WriteHeaders(self),
                       params |-> None, data |-> b.payload],
                      b.url, reply) :
            b \in {build_payload(self, payload, url, TRUE)}})

\* Client.__put(payload, *url, exclude_id)
put(self, payload, url, exclude_id, reply) ==
    The({IF b.err # "none" THEN Result(<<>>, <<>>, Raise(b.err))
         ELSE request([verb |-> "PUT", url |-> <<>>,
                       headers |-> WriteHeaders(self),
                       params |-> None, data |-> b.payload],
                      b.url, reply) :
            b \in {build_payload(self, payload, url, exclude_id)}})

\* Client.add(item)
add(self, item, reply) ==
    returns_none(post(self, item, <<self.base_url>>, reply))

\* Client.update(id, item)
update(self, id, item, reply) ==
    returns_none(put(self, item, <<self.base_url, str(id)>>, TRUE, reply))

\* Client.bulk_update(items)
bulk_update(self, items, reply) ==
    returns_none(put(self, items, <<self.base_url>>, FALSE, reply))

\* The payloads of the calls: instances of the schema, mappings with and
\* without an id, lists of them.
Models == {[kind |-> "model", row |-> r] : r \in Rows}
Dicts == {[kind |-> "dict", row |-> r] : r \in Rows \cup {[name |-> "a"]}}
Lists == {[kind |-> "list", rows |-> q] :
            q \in SeqsUpTo(Models \cup Dicts, MaxItems)}

\* ------------------------------------------------------------------ the CLI
\* click.BadOptionUsage(*args) of click 8.0.1 (src/setup.py), whose
\* __init__ takes (option_name, message): built with the message alone the
\* call itself fails with a TypeError, and that is what is raised.
BadOptionUsage(nargs) ==
    IF nargs >= 2 THEN Raise("BadOptionUsage") ELSE Raise("TypeError")

\* Config(*args, **kwargs) of a pydantic 1.8.2 model (src/setup.py), whose
\* __init__ takes keyword arguments only.
Config(pos, kw) ==
    IF Len(pos) > 0 THEN Raise("TypeError")
    ELSE IF {"base_url", "auth_token"} \subseteq DOMAIN kw
    THEN Returned([base_url |-> kw.base_url, auth_token |-> kw.auth_token])
    ELSE Raise("ValidationError")

\* The configuration stored in the config file of the model.
ConfigPath == Str(<<"nocopy.json">>)
ApiUrl == <<"http:", "/", "/", "host">>
FileConfig == [base_url |-> ApiUrl, auth_token |-> <<"secret">>]

\* Config.from_file(path)
from_file(path) == Config(<<>>, FileConfig)

\* __check_get_config(config_file, url, token)
check_get_config(config_file, url, token) ==
    LET got_config == ~IsNone(config_file)
        got_url == ~IsNone(url) \/ (~IsNone(url) /\ url.str = <<>>)
        got_token == ~IsNone(token) \/ (~IsNone(token) /\ token.str = <<>>)
    IN  IF got_config /\ (got_url \/ got_token) THEN BadOptionUsage(1)
        ELSE IF got_url # got_token THEN BadOptionUsage(1)
        ELSE IF got_url /\ got_token
        THEN Config(<<url.str, token.str>>, EmptyDict)
        ELSE IF ~got_config THEN BadOptionUsage(1)
        ELSE from_file(config_file)

\* __get_client(config_file, url, table, token): the client, no schema
\* bound, or the error raised.
get_client(config_file, url, table, token) ==
    The({IF config.kind = "raise" THEN config
         ELSE The({IF u.err # "none" THEN Raise(u.err)
                   ELSE Returned([base_url |-> u.url,
                                  auth_token |-> config.value.auth_token,
                                  typed |-> FALSE]) :
                     u \in {build_url(<<config.value.base_url, table>>)}}) :
            config \in {check_get_config(config_file, url, token)}})

\* The pull command, up to the records it hands to __write_output.
pull(config_file, url, token, table, where, limit, offset, sort, fields, fields1, count_reply, reply) ==
    The({IF c.kind = "raise" THEN Result(<<>>, <<>>, c)
         ELSE list(c.value, where, limit, offset, sort, fields, fields1, TRUE,
                   count_reply, reply) :
            c \in {get_client(config_file, url, table, token)}})

\* sys.exit(status)
Exit(status) == [kind |-> "exit", status |-> status]

\* The names bound where purge prints its warning (line 401): its
\* parameters, its local `client`, and the globals of the module.
PurgeNames ==
    {"config_file", "url", "table", "token", "client"}
    \cup {"csv", "io", "json", "Path", "sys", "Any", "Dict", "List",
          "Optional", "click", "BaseModel", "fuzz_process", "yaml", "Client",
          "build_url", "Config", "cli", "count", "push", "init", "pull",
          "purge", "template", "update"}

\* The loop of purge over the listed records: client.delete(record["id"])
\* for each, answered by `replies` in turn.
RECURSIVE delete_all(_, _, _)
delete_all(self, records, replies) ==
    IF records = <<>> THEN Result(<<>>, <<>>, Returned(None))
    ELSE IF Head(records).kind # "object"
    THEN Result(<<>>, <<>>, Raise("TypeError"))
    ELSE IF "id" \notin DOMAIN Head(records).obj
    THEN Result(<<>>, <<>>, Raise("KeyError"))
    ELSE then(delete(self, Head(records).obj.id, Head(replies)),
              delete_all(self, Tail(records), Tail(replies)))

\* purge from line 412 on: list the table, delete every record listed.
purge_records(self, count_reply, reply, delete_replies) ==
    The({IF l.out.kind = "raise" THEN l
         ELSE CASE l.out.value.kind = "array" ->
                     then(l, delete_all(self, l.out.value.array,
                                        delete_replies))
                \* the loop runs over the keys of a mapping, and a key
                \* has no ["id"]
                [] l.out.value.kind = "object" ->
                     IF DOMAIN l.out.value.obj = {}
                     THEN Result(l.sent, l.replies, Returned(None))
                     ELSE Result(l.sent, l.replies, Raise("TypeError"))
                [] OTHER -> Result(l.sent, l.replies, Raise("TypeError")) :
            l \in {list(self, None, None, Num(0), None, None, None, FALSE,
                        count_reply, reply)}})

\* The purge command: `answer1` and `answer2` are what the user types at
\* the two prompts.
purge(config_file, url, token, table, answer1, answer2, count_reply, reply, delete_replies) ==
    The({IF c.kind = "raise" THEN Result(<<>>, <<>>, c)
         ELSE IF "config" \notin PurgeNames
         THEN Result(<<>>, <<>>, Raise("NameError"))
         ELSE IF answer1 # <<"Y">> THEN Result(<<>>, <<>>, Exit(0))
         ELSE IF answer2 # table THEN Result(<<>>, <<>>, Exit(0))
         ELSE purge_records(c.value, count_reply, reply, delete_replies) :
            c \in {get_client(config_file, url, table, token)}})

\* What the user may type at the prompts of purge.
Answers1 == {<<"Y">>, <<"y">>, <<"n">>}
Answers2 == {<<"tbl">>, <<"Y">>, <<>>}

\* The connection options of a command: absent, empty or set.
ConfigFiles == {None, ConfigPath}
UrlOptions == {None, Str(<<>>), Str(ApiUrl)}
TokenOptions == {None, Str(<<>>), Str(<<"secret">>)}
Tables == {<<"tbl">>}

\* ----------------------------------------------------- arguments of calls
OptStr == {None, Str(<<"x">>)}
OptStrOrList == {None, Str(<<"a">>), List(<<<<"a">>, <<"-b">>>>)}
Limits == {None, Num(0), Num(1)}
Offsets == {Num(0), Num(1)}
\* --offset of the command line: absent or set.
OffsetOptions == {None} \cup Offsets

\* ------------------------------------------------------------------- state
VARIABLES
    base_url,     \* Client.base_url
    auth_token,   \* Client.auth_token
    typed,        \* whether a schema type T is bound to the client
    pc,           \* "idle": no call is running; "done": a call has ended
    op,           \* the operation called last
    args,         \* its arguments
    served,       \* the replies the server had for its requests, in order
    sent,         \* its calls of requests.get/post/put/delete, in order
    replies,      \* the responses these calls returned, in order
    outcome       \* how it ended: a returned value or a raised error

vars ==
    <<base_url, auth_token, typed, pc, op, args, served, sent, replies,
      outcome>>
client == <<base_url, auth_token, typed>>

\* The client the caller holds: Client[T](base_url, auth_token), or
\* Client(base_url, auth_token) with no schema bound.
Self == [base_url |-> base_url, auth_token |-> auth_token, typed |-> typed]

\* Tokens of the segments build_url is called with on its own.
Chars == {"a", "/"}
Segments == SeqsUpTo(Chars, MaxSegLen)

BaseUrls == { <<"http:", "/", "/", "host", "/", "tbl">>,
              <<"http:", "/", "/", "host", "/", "tbl", "/">> }
AuthTokens == {<<"secret">>}

NoCall == [kind |-> "none"]
NoArgs == [none |-> TRUE]

Init ==
    /\ base_url \in BaseUrls
    /\ auth_token \in AuthTokens
    /\ typed \in BOOLEAN
    /\ pc = "idle"
    /\ op = "none"
    /\ args = NoArgs
    /\ served = <<>>
    /\ sent = <<>>
    /\ replies = <<>>
    /\ outcome = NoCall

\* The caller goes on after a call has ended.
Return ==
    /\ pc = "done"
    /\ pc' = "idle"
    /\ op' = "none"
    /\ args' = NoArgs
    /\ served' = <<>>
    /\ sent' = <<>>
    /\ replies' = <<>>
    /\ outcome' = NoCall
    /\ UNCHANGED client

\* The replies the server had for list, group_by and aggregate: one for
\* the count request if there is to be one, one for the request itself
\* (NoReply where the request is never made).
Served(limit, count_reply, reply) ==
    IF IsNone(limit) THEN <<count_reply, reply>> ELSE <<reply>>

\* Runs an operation: `sv` are the replies the server had for it, `r` is
\* its Result.
Ran(name, a, sv, result) ==
    \E r \in {result} :
        /\ pc' = "done"
        /\ op' = name
        /\ args' = a
        /\ served' = sv
        /\ sent' = r.sent
        /\ replies' = r.replies
        /\ outcome' = r.out
        /\ UNCHANGED client

\* A call of build_url(*segs) on its own.
CallBuildUrl ==
    /\ pc = "idle"
    /\ \E segs \in SeqsUpTo(Segments, MaxSegs) :
          LET r == build_url(segs)
          IN  Ran("build_url", [segs |-> segs], <<>>,
                  Result(<<>>, <<>>,
                         IF r.err = "none" THEN Returned(Str(r.url))
                         ELSE Raise(r.err)))

CallCount ==
    /\ pc = "idle"
    /\ \E where \in OptStr, reply \in Replies :
        Ran("count", [where |-> where], <<reply>>, count(Self, where, reply))

CallList ==
    /\ pc = "idle"
    /\ \E where \in OptStr, limit \in Limits, offset \in Offsets,
       sort \in OptStrOrList, fields \in OptStr, fields1 \in OptStr,
       as_dict \in BOOLEAN :
      \E count_reply \in RepliesIf(IsNone(limit)) :
      \E reply \in RepliesIf(
                resolve_limit(Self, limit, count_reply).out.kind = "return") :
        Ran("list",
            [where |-> where, limit |-> limit, offset |-> offset,
             sort |-> sort, fields |-> fields, fields1 |-> fields1,
             as_dict |-> as_dict],
            Served(limit, count_reply, reply),
            list(Self, where, limit, offset, sort, fields, fields1,
                 as_dict, count_reply, reply))

CallFindFirst ==
    /\ pc = "idle"
    /\ \E where \in OptStr, offset \in Offsets, sort \in OptStrOrList,
          fields \in OptStr, as_dict \in BOOLEAN, reply \in Replies :
        Ran("find_first",
            [where |-> where, offset |-> offset, sort |-> sort,
             fields |-> fields, as_dict |-> as_dict], <<reply>>,
            find_first(Self, where, offset, sort, fields, as_dict, reply))

CallGroupBy ==
    /\ pc = "idle"
    /\ \E column_name \in OptStr, where \in OptStr, limit \in Limits,
          offset \in Offsets, sort \in OptStrOrList :
      \E count_reply \in RepliesIf(IsNone(limit)) :
      \E reply \in RepliesIf(
                resolve_limit(Self, limit, count_reply).out.kind = "return") :
        Ran("group_by",
            [column_name |-> column_name, where |-> where, limit |-> limit,
             offset |-> offset, sort |-> sort],
            Served(limit, count_reply, reply),
            group_by(Self, column_name, where, limit, offset, sort,
                     count_reply, reply))

CallAggregate ==
    /\ pc = "idle"
    /\ \E column_name \in OptStr, func \in OptStrOrList, having \in OptStr,
          fields \in OptStr, limit \in Limits, offset \in Offsets,
          sort \in OptStr :
      \E count_reply \in RepliesIf(IsNone(limit)) :
      \E reply \in RepliesIf(
                resolve_limit(Self, limit, count_reply).out.kind = "return") :
        Ran("aggregate",
            [column_name |-> column_name, func |-> func, having |-> having,
             fields |-> fields, limit |-> limit, offset |-> offset,
             sort |-> sort],
            Served(limit, count_reply, reply),
            aggregate(Self, column_name, func, having, fields, limit, offset,
                      sort, count_reply, reply))

CallById ==
    /\ pc = "idle"
    /\ \E id \in 1..MaxId, reply \in Replies :
        Ran("by_id", [id |-> id], <<reply>>, by_id(Self, id, reply))

CallExists ==
    /\ pc = "idle"
    /\ \E id \in 1..MaxId, reply \in Replies :
        Ran("exists", [id |-> id], <<reply>>, exists(Self, id, reply))

CallDelete ==
    /\ pc = "idle"
    /\ \E id \in 1..MaxId, reply \in Replies :
        Ran("delete", [id |-> id], <<reply>>, delete(Self, id, reply))

CallAdd ==
    /\ pc = "idle"
    /\ \E item \in Models \cup Dicts \cup Lists, reply \in Replies :
        Ran("add", [item |-> item], <<reply>>, add(Self, item, reply))

CallUpdate ==
    /\ pc = "idle"
    /\ \E id \in 1..MaxId, item \in Models \cup Dicts, reply \in Replies :
        Ran("update", [id |-> id, item |-> item], <<reply>>,
            update(Self, id, item, reply))

CallBulkUpdate ==
    /\ pc = "idle"
    /\ \E items \in Lists, reply \in Replies :
        Ran("bulk_update", [items |-> items], <<reply>>,
            bulk_update(Self, items, reply))

\* __check_get_config on its own.
CallCheckGetConfig ==
    /\ pc = "idle"
    /\ \E config_file \in ConfigFiles, url \in UrlOptions,
          token \in TokenOptions :
        Ran("check_get_config",
            [config_file |-> config_file, url |-> url, token |-> token],
            <<>>,
            Result(<<>>, <<>>, check_get_config(config_file, url, token)))

\* nocopy pull: the options of the command line and the replies of the
\* server.
CallPull ==
    /\ pc = "idle"
    /\ \E config_file \in ConfigFiles, url \in UrlOptions,
          token \in TokenOptions, table \in Tables :
      LET c == get_client(config_file, url, table, token)
          made == c.kind = "return"
      IN
      \E where \in IF made THEN OptStr ELSE {None},
         limit \in IF made THEN Limits ELSE {None},
         offset \in IF made THEN OffsetOptions ELSE {None},
         sort \in IF made THEN OptStr ELSE {None},
         fields \in IF made THEN OptStr ELSE {None},
         fields1 \in IF made THEN OptStr ELSE {None} :
      \E count_reply \in RepliesIf(made /\ IsNone(limit)) :
      \E reply \in RepliesIf(made /\
                resolve_limit(c.value, limit, count_reply).out.kind
                    = "return") :
        Ran("pull",
            [config_file |-> config_file, url |-> url, token |-> token,
             table |-> table, where |-> where, limit |-> limit,
             offset |-> offset, sort |-> sort, fields |-> fields,
             fields1 |-> fields1],
            Served(limit, count_reply, reply),
            pull(config_file, url, token, table, where, limit, offset, sort,
                 fields, fields1, count_reply, reply))

\* The records of a listing that purge goes through.
Listed(reply) ==
    IF reply.body.kind = "array" THEN reply.body.array ELSE <<>>

\* nocopy purge: the options of the command line, the answers of the user
\* and the replies of the server: to the count, to the listing and to the
\* delete of each record listed.
CallPurge ==
    /\ pc = "idle"
    /\ \E config_file \in ConfigFiles, url \in UrlOptions,
          token \in TokenOptions, table \in Tables,
          answer1 \in Answers1, answer2 \in Answers2 :
      LET c == get_client(config_file, url, table, token)
          made == /\ c.kind = "return"
                  /\ "config" \in PurgeNames
                  /\ answer1 = <<"Y">>
                  /\ answer2 = table
      IN
      \E count_reply \in RepliesIf(made) :
      \E reply \in RepliesIf(made /\
                resolve_limit(c.value, None, count_reply).out.kind
                    = "return") :
      \E delete_replies \in [DOMAIN Listed(reply) -> RepliesIf(made)] :
        Ran("purge",
            [config_file |-> config_file, url |-> url, token |-> token,
             table |-> table, answer1 |-> answer1, answer2 |-> answer2],
            IF made THEN <<count_reply, reply>> \o delete_replies ELSE <<>>,
            purge(config_file, url, token, table, answer1, answer2,
                  count_reply, reply, delete_replies))

Next ==
    \/ CallBuildUrl
    \/ CallCount
    \/ CallList
    \/ CallFindFirst
    \/ CallGroupBy
    \/ CallAggregate
    \/ CallById
    \/ CallExists
    \/ CallDelete
    \/ CallAdd
    \/ CallUpdate
    \/ CallBulkUpdate
    \/ CallCheckGetConfig
    \/ CallPull
    \/ CallPurge
    \/ Return

Spec == Init /\ [][Next]_vars

\* ================================================================== claims
\* A call of operation `name` has ended.
Done(name) == pc = "done" /\ op = name

\* The base URL of the client without the slash it may end with.
BaseNoSlash ==
    IF base_url[Len(base_url)] = "/"
    THEN SubSeq(base_url, 1, Len(base_url) - 1)
    ELSE base_url

IsClientError(code) == 400 <= code /\ code < 500
IsServerError(code) == 500 <= code /\ code < 600
IsError(code) == IsClientError(code) \/ IsServerError(code)

\* The operations that resolve a missing limit by counting, and the URL
\* each of them fetches from.
LimitOps == {"list", "group_by", "aggregate"}
FetchUrl ==
    IF op = "group_by" THEN BaseNoSlash \o <<"/", "groupby">> ELSE BaseNoSlash
CountUrl == BaseNoSlash \o <<"/", "count">>

\* The first reply answers a count request with a row count.
Counted ==
    /\ Len(replies) >= 1
    /\ ~IsError(replies[1].status_code)
    /\ replies[1].body.kind = "object"
    /\ "count" \in DOMAIN replies[1].body.obj

\* C1: list, group_by and aggregate called with limit=None first issue one
\* GET to <base_url>/count and, once that is answered with a count, exactly
\* one more request: the GET of the operation itself, whose limit is the
\* count the first request returned.  Called with a limit (0 included) they
\* issue that one GET with the limit given, and no count request.
C1_CountThenFetch ==
    (pc = "done" /\ op \in LimitOps) =>
        IF IsNone(args.limit)
        THEN /\ Len(sent) >= 1
             /\ sent[1].verb = "GET"
             /\ sent[1].url = CountUrl
             /\ Counted =>
                   /\ Len(sent) = 2
                   /\ sent[2].verb = "GET"
                   /\ sent[2].url = FetchUrl
                   /\ sent[2].params.map["limit"]
                        = Num(replies[1].body.obj.count)
        ELSE /\ Len(sent) = 1
             /\ sent[1].verb = "GET"
             /\ sent[1].url = FetchUrl
             /\ sent[1].url # CountUrl
             /\ sent[1].params.map["limit"] = args.limit

\* A call with limit=None that counted two rows, fetched them and returned.
C1_Witness ==
    /\ Done("aggregate")
    /\ IsNone(args.limit)
    /\ Len(sent) = 2
    /\ Len(replies) = 2
    /\ replies[1].body.obj.count = 2
    /\ outcome.kind = "return"

\* The last response a call got, and the request it answered.
LastReply == replies[Len(replies)]
LastSent == sent[Len(sent)]

\* response.reason as text, whatever type it came in.
ReasonText(reason) ==
    IF reason.type = "str" THEN reason.text
    ELSE IF reason.utf8_ok THEN reason.utf8 ELSE reason.latin1

\* C2: whatever status code a response has, the wrapper returns the raw
\* response unchanged when the status is a success (below 400, or 600 and
\* above), fails with a "Client Error" exactly when 400 <= status < 500 and
\* with a "Server Error" exactly when 500 <= status < 600, so that no call
\* returns on a response with a status in 400..599.
C2_StatusClassification ==
    (pc = "done" /\ Len(replies) >= 1) =>
        LET code == LastReply.status_code
            w == exception_on_error_code(LastReply)
        IN  /\ ~IsError(code) => w = Returned(LastReply)
            /\ IsClientError(code) =>
                   /\ outcome.kind = "raise"
                   /\ outcome.exc = "HTTPError"
                   /\ outcome.msg.kind = "Client Error"
            /\ IsServerError(code) =>
                   /\ outcome.kind = "raise"
                   /\ outcome.exc = "HTTPError"
                   /\ outcome.msg.kind = "Server Error"
            /\ outcome.kind = "return" => ~IsError(code)

\* C3: for every 4xx/5xx response the call fails with an HTTPError that
\* carries the status code, the kind, the reason phrase, the URL of the
\* request and a message: the `msg` of a JSON object body that has one, the
\* raw text of a body that is not JSON; no shape of the body makes the
\* wrapper fail with another error.
C3_ErrorMessage ==
    (pc = "done" /\ Len(replies) >= 1 /\ IsError(LastReply.status_code)) =>
        LET code == LastReply.status_code
            body == LastReply.body
        IN  /\ outcome.kind = "raise"
            /\ outcome.exc = "HTTPError"
            /\ outcome.msg.status_code = code
            /\ outcome.msg.kind = IF IsClientError(code) THEN "Client Error"
                                  ELSE "Server Error"
            /\ outcome.msg.reason = ReasonText(LastReply.reason)
            /\ outcome.msg.url = LastSent.url
            /\ (body.kind = "object" /\ "msg" \in DOMAIN body.obj) =>
                   outcome.msg.message.text = body.obj.msg
            /\ body.kind = "text" => outcome.msg.message.text = body.text

\* The keys a JSON text of a mapping writes.
KeysOf(text) == {text.keys[i] : i \in DOMAIN text.keys}

\* The mapping a JSON text of a mapping decodes to.
loads(text) == [k \in KeysOf(text) |-> text.written[k]]

\* C4: add and bulk_update called with a list of records send one request
\* to the path suffixed with "bulk", whose body holds one JSON object per
\* record; add(list) writes the `id` of no record, bulk_update(list) writes
\* the `id` of every record that has one.
C4_ListPayload ==
    /\ (Done("add") /\ args.item.kind = "list") =>
           /\ Len(sent) = 1
           /\ sent[1].url = BaseNoSlash \o <<"/", "bulk">>
           /\ sent[1].data.json = "array"
           /\ Len(sent[1].data.texts) = Len(args.item.rows)
           /\ \A i \in DOMAIN args.item.rows :
                  "id" \notin KeysOf(sent[1].data.texts[i])
    /\ Done("bulk_update") =>
           /\ Len(sent) = 1
           /\ sent[1].url = BaseNoSlash \o <<"/", "bulk">>
           /\ sent[1].data.json = "array"
           /\ Len(sent[1].data.texts) = Len(args.items.rows)
           /\ \A i \in DOMAIN args.items.rows :
                  "id" \in DOMAIN args.items.rows[i].row =>
                      /\ "id" \in KeysOf(sent[1].data.texts[i])
                      /\ loads(sent[1].data.texts[i]).id
                           = args.items.rows[i].row.id

\* The payload of add or update is a single record: a mapping, or an
\* instance of the schema bound to the client.
SinglePayload ==
    /\ pc = "done"
    /\ op \in {"add", "update"}
    /\ \/ args.item.kind = "dict"
       \/ args.item.kind = "model" /\ typed

\* C5: add and update called with a single record send one request to the
\* path as it is, without a bulk suffix; the body is the JSON of the record
\* without its `id` for an instance of the schema, the JSON of the mapping
\* verbatim for a mapping, so that the decoded body of a created instance
\* is the mapping of the instance minus `id`.
C5_SinglePayload ==
    SinglePayload =>
        /\ Len(sent) = 1
        /\ sent[1].url = IF op = "add" THEN BaseNoSlash
                         ELSE BaseNoSlash \o <<"/">> \o str(args.id)
        /\ sent[1].data.json = "object"
        /\ loads(sent[1].data)
             = IF args.item.kind = "model"
               THEN [k \in DOMAIN args.item.row \ {"id"} |-> args.item.row[k]]
               ELSE args.item.row

\* An instance of the schema was created, and a mapping with an id.
C5_Witness ==
    /\ Done("add")
    /\ typed
    /\ args.item.kind = "model"
    /\ Len(sent) = 1
    /\ sent[1].verb = "POST"
    /\ DOMAIN loads(sent[1].data) = {"name"}
    /\ outcome = Returned(None)

\* C6: by_id fails with a not-found error (KeyError) whenever the server
\* answers with a success and a JSON object without `id`, and returns the
\* record whenever that object has an `id`: parsed against the schema on a
\* typed client, the raw mapping otherwise.
C6_ByIdNotFound ==
    (Done("by_id") /\ ~IsError(served[1].status_code)
                   /\ served[1].body.kind = "object") =>
        IF "id" \notin DOMAIN served[1].body.obj
        THEN outcome = Raise("KeyError")
        ELSE /\ outcome.kind = "return"
             /\ outcome.value
                  = IF typed THEN parse_obj(served[1].body).value
                    ELSE served[1].body

\* No two slashes next to each other in a sequence of tokens.
NoDoubleSlash(q) ==
    \A i \in 1..(Len(q) - 1) : ~(q[i] = "/" /\ q[i + 1] = "/")

\* C7: for every sequence of segments build_url returns a URL without a
\* leading slash and without a trailing slash, and without two slashes in
\* a row unless a segment has them inside; no segments, or empty segments
\* only, give "".
C7_Normalised ==
    Done("build_url") =>
        /\ outcome.kind = "return"
        /\ LET url == outcome.value.str
           IN  /\ url # <<>> => url[1] # "/" /\ url[Len(url)] # "/"
               /\ (\A i \in DOMAIN args.segs : NoDoubleSlash(args.segs[i]))
                      => NoDoubleSlash(url)
               /\ (\A i \in DOMAIN args.segs : args.segs[i] = <<>>)
                      => url = <<>>

\* C8: build_url raises no error, whatever the segments are, a segment of
\* slashes only included.
C8_Total ==
    Done("build_url") => outcome.kind = "return"

\* The operations that build a parameter mapping, the pull command over
\* list included.
ParamOps == {"list", "count", "find_first", "group_by", "aggregate", "pull"}

\* C9: in the parameter mapping of every request of list, count,
\* find_first, group_by, aggregate and of the pull command no key maps to
\* None; a key other than the resolved limit is there only if the caller
\* gave a value for it, and it maps to that value, the elements joined by
\* commas if the value is a list.
C9_NoNoneParams ==
    (pc = "done" /\ op \in ParamOps) =>
        \A i \in DOMAIN sent :
            /\ sent[i].params.t = "dict"
            /\ \A k \in DOMAIN sent[i].params.map :
                   /\ ~IsNone(sent[i].params.map[k])
                   /\ k # "limit" =>
                          /\ k \in DOMAIN args
                          /\ ~IsNone(args[k])
                          /\ sent[i].params.map[k]
                               = IF args[k].t = "list"
                                 THEN Str(join(",", args[k].elems))
                                 ELSE args[k]

\* A connection option is given.
Given(option) == ~IsNone(option)

\* C10: __check_get_config returns a config if and only if exactly one
\* source is given: the config file alone, and the config is the one of the
\* file, or url and token together without a config file, and the config
\* holds them; every other combination fails with the error of a wrong
\* configuration (BadOptionUsage).
C10_ExactlyOneSource ==
    Done("check_get_config") =>
        LET file == Given(args.config_file)
            url == Given(args.url)
            token == Given(args.token)
        IN  IF file /\ ~url /\ ~token
            THEN outcome = Returned(FileConfig)
            ELSE IF ~file /\ url /\ token
            THEN outcome = Returned([base_url |-> args.url.str,
                                     auth_token |-> args.token.str])
            ELSE outcome = Raise("BadOptionUsage")

\* purge was run with the config file as its one source of the connection.
PurgeWithConfigFile ==
    /\ Done("purge")
    /\ ~IsNone(args.config_file)
    /\ IsNone(args.url)
    /\ IsNone(args.token)

\* Both prompts of purge were answered affirmatively: "Y", then the name of
\* the table.
Affirmed == args.answer1 = <<"Y">> /\ args.answer2 = args.table

\* The DELETE requests among the requests sent.
Deletes == {i \in DOMAIN sent : sent[i].verb = "DELETE"}

\* C11: purge issues no request unless both prompts were answered
\* affirmatively; with a negative answer at either prompt it ends with exit
\* status 0 and no error; with both answers affirmative it goes on to list
\* the table (the count request first) and, the listing answered with
\* records, issues one delete request per record.
C11_PurgeConfirmations ==
    PurgeWithConfigFile =>
        IF ~Affirmed
        THEN sent = <<>> /\ outcome = Exit(0)
        ELSE /\ Len(sent) >= 1
             /\ sent[1].verb = "GET"
             /\ outcome.kind # "exit"
             /\ (Len(replies) >= 2 /\ ~IsError(replies[2].status_code)
                   /\ replies[2].body.kind = "array") =>
                    Cardinality(Deletes) >= 1
                        \/ replies[2].body.array = <<>>

\* C12: a response with a 4xx/5xx status ends the operation: it is the last
\* response the operation gets, the request it answers is the last request
\* the operation issues (nothing is sent again, nothing is sent after it),
\* and the operation ends with the very error the wrapper raised for it.
C12_NoRetry ==
    pc = "done" =>
        \A i \in DOMAIN replies :
            IsError(replies[i].status_code) =>
                /\ i = Len(replies)
                /\ Len(sent) = i
                /\ \A k \in 1..(i - 1) : sent[k] # sent[i]
                /\ outcome.kind = "raise"
                /\ outcome = exception_on_error_code(replies[i])

\* The count inside list failed with a 4xx/5xx, and the listing was never
\* requested.
C12_Witness ==
    /\ Done("list")
    /\ IsNone(args.limit)
    /\ Len(sent) = 1
    /\ Len(replies) = 1
    /\ IsServerError(replies[1].status_code)
    /\ sent[1].url = CountUrl
    /\ outcome.kind = "raise"
    /\ outcome.exc = "HTTPError"

\* The token of the client that issued the requests of the call: the
\* caller's client, or the client a command built from its options.
TokenOfClient ==
    IF op \in {"pull", "purge"}
    THEN IF IsNone(args.token) THEN FileConfig.auth_token ELSE args.token.str
    ELSE auth_token

\* Every request sent carries the token of the client as its xc-auth
\* header.
AuthHeaderSent ==
    \A i \in DOMAIN sent :
        /\ "xc-auth" \in DOMAIN sent[i].headers
        /\ sent[i].headers["xc-auth"] = TokenOfClient

\* C13: every request of every operation, GET, POST, PUT or DELETE, carries
\* the header xc-auth with the token the client was constructed with, and
\* no operation changes base_url or auth_token of the client.
C13_AuthHeader ==
    /\ []AuthHeaderSent
    /\ [][base_url' = base_url /\ auth_token' = auth_token]_vars

\* A call that sent one request, of any of the four verbs, and returned.
C13_Witness ==
    /\ pc = "done"
    /\ Len(sent) = 1
    /\ \/ op = "update" /\ sent[1].verb = "PUT"
       \/ op = "add" /\ sent[1].verb = "POST"
       \/ op = "delete" /\ sent[1].verb = "DELETE"
       \/ op = "exists" /\ sent[1].verb = "GET"
    /\ sent[1].headers["xc-auth"] = auth_token
    /\ outcome.kind = "return"

\* find_first was answered with a success whose body is one record.
FoundOne ==
    /\ Done("find_first")
    /\ Len(replies) = 1
    /\ ~IsError(replies[1].status_code)
    /\ replies[1].body.kind = "object"
    /\ SchemaFields \subseteq DOMAIN replies[1].body.obj

\* C14: find_first issues exactly one GET, to <base_url>/findOne, without a
\* limit parameter and without a count request before it, and returns a
\* list of exactly one element: the record of the response, parsed against
\* the schema on a typed client (as a mapping if as_dict), the raw mapping
\* otherwise.
C14_FindFirst ==
    /\ Done("find_first") =>
           /\ Len(sent) = 1
           /\ sent[1].verb = "GET"
           /\ sent[1].url = BaseNoSlash \o <<"/", "findOne">>
           /\ "limit" \notin DOMAIN sent[1].params.map
    /\ FoundOne =>
           /\ outcome.kind = "return"
           /\ outcome.value
                = JArray(<<IF ~typed THEN replies[1].body
                           ELSE [kind |-> IF args.as_dict THEN "dict"
                                          ELSE "model",
                                 row |-> replies[1].body.obj]>>)

\* The URL of the record the call is about.
RecordUrl == BaseNoSlash \o <<"/">> \o str(args.id)

\* A call of by_id, exists or delete, or of update with a single record.
PerRecordCall ==
    /\ pc = "done"
    /\ \/ op \in {"by_id", "exists", "delete"}
       \/ op = "update" /\ SinglePayload

\* C15: by_id(id) issues a GET to <base_url>/<id>, exists(id) a GET to
\* <base_url>/<id>/exists, update(id, item) a PUT to <base_url>/<id> and
\* delete(id) a DELETE to <base_url>/<id>; the base URL is part of the URL
\* of the request and is not what is passed as its query parameters.
C15_RecordUrls ==
    PerRecordCall =>
        /\ Len(sent) = 1
        /\ sent[1].verb = CASE op = "update" -> "PUT"
                            [] op = "delete" -> "DELETE"
                            [] OTHER -> "GET"
        /\ sent[1].url = IF op = "exists"
                         THEN RecordUrl \o <<"/", "exists">>
                         ELSE RecordUrl
        /\ sent[1].params.t # "str"

\* list or group_by was called with a filter and without a limit.
FilteredNoLimit ==
    /\ pc = "done"
    /\ op \in {"list", "group_by"}
    /\ IsNone(args.limit)
    /\ ~IsNone(args.where)

\* C16: list and group_by called with limit=None and a `where` filter
\* count without the filter: the count request has no parameter at all, and
\* the limit of the request that follows is the count it returned, the
\* filter and the offset going with that request only and the offset not
\* taken off the limit.
C16_UnfilteredCount ==
    FilteredNoLimit =>
        /\ Len(sent) >= 1
        /\ sent[1].url = CountUrl
        /\ DOMAIN sent[1].params.map = {}
        /\ Counted =>
               /\ Len(sent) = 2
               /\ sent[2].params.map["limit"]
                    = Num(replies[1].body.obj.count)
               /\ sent[2].params.map["where"] = args.where
               /\ sent[2].params.map["offset"] = args.offset

\* A filtered listing from offset 1 on, of a table counted at two rows.
C16_Witness ==
    /\ FilteredNoLimit
    /\ op = "list"
    /\ args.offset = Num(1)
    /\ Len(sent) = 2
    /\ replies[1].body.obj.count = 2
    /\ sent[2].params.map["limit"] = Num(2)
    /\ outcome.kind = "return"

====
